---- MODULE Spec2Model ----
(***************************************************************************)
(* A model of zip-fs (src/src/zipHandle.ts): one handle returned by open() *)
(* on one container file.  The handle keeps a Base Index (entries, dirs)   *)
(* scanned from the container, an overlay (overlayFiles, overlayDirs,      *)
(* deleted) that stages mutations, and a counter of active base streams.   *)
(* commit() is a sequence of steps separated by its I/O suspension points. *)
(*                                                                         *)
(* Path keys are sequences of segments: "a/b/c" is <<"a","b","c">>, the    *)
(* root "" is <<>>; split("/") and join("/") are the identity on this      *)
(* representation and slice() is SubSeq.                                   *)
(***************************************************************************)
EXTENDS Integers, Sequences, FiniteSets, TLC

\* ------------------------------------------------------------------ bounds

\* Number of API calls (writeFile, mkdir, unlink, commit, close,
\* createReadStream) made in one behaviour.
MaxOps == 3

\* Number of base content streams that may be open at once.
MaxStreams == 1

\* Length of the raw path strings given to normalizePath.
MaxPathLen == 3
MaxSources == 2

\* ------------------------------------------------------------------ inputs

\* The path keys the calls are made on, in a fixed order.
KeyList == << <<"a">>, <<"a", "b">>, <<"a", "b", "c">> >>

Keys == { KeyList[i] : i \in 1..Len(KeyList) }

Root == << >>

\* writeFile's inputs: the bytes and the options {mtime, mode}; NoMode is an
\* absent mode (undefined).
NoMode == -1

\* new Date(): the model keeps no clock, every "now" is the same instant.
Now == 0

Inputs ==
  { [data |-> <<1>>, mtime |-> 1, mode |-> 420],
    [data |-> <<2, 3>>, mtime |-> 2, mode |-> NoMode] }

\* ------------------------------------------------------------------ maps

\* A JavaScript Map is a function whose domain is the set of its keys.
EmptyMap == [x \in {} |-> x]

Has(m, k) == k \in DOMAIN m

Put(m, k, v) == [x \in (DOMAIN m) \cup {k} |-> IF x = k THEN v ELSE m[x]]

Del(m, k) == [x \in (DOMAIN m) \ {k} |-> m[x]]

\* ------------------------------------------------------------------ files on disk

\* A container file: the file entries (name -> content) and the directory
\* markers (names ending in "/", kept without the marker) it holds.
NoFile == [exists |-> FALSE, files |-> EmptyMap, dirs |-> {}]

\* A file that was created but not completely written.
PartialFile == [exists |-> TRUE, files |-> EmptyMap, dirs |-> {}]

Container(files, markers) == [exists |-> TRUE, files |-> files, dirs |-> markers]

\* The containers a handle is opened on: none yet; a top-level file; a nested
\* file under a directory marker; a nested file with no marker for its
\* parents.
InitContainers ==
  { NoFile,
    Container([k \in {<<"a">>} |-> <<1>>], {}),
    Container([k \in {<<"a", "b">>} |-> <<2, 3>>], {<<"a">>}),
    Container([k \in {<<"a", "b", "c">>} |-> <<1>>], {}) }

VARIABLES
  zip,                      \* the container file at zipPath
  tmp,                      \* the file at zipPath + tmpSuffix
  staging,                  \* disk overlay: staging file path -> content
  overlayMode,              \* option: "memory" or "disk"
  preserveOverlayOnCommit,  \* option
  zipfile,                  \* the base session: "null", "open" or "closed"
  entries,                  \* Base Index: key -> EntryMeta
  dirs,                     \* Base Index: directory key -> child names
  overlayFiles,             \* key -> OverlayEntry
  overlayDirs,              \* explicit overlay directories
  deleted,                  \* deletion set
  activeReadStreams,        \* counter of open base streams
  pc,                       \* where the commit() in progress is suspended
  writer,                   \* the yazl writer commit() has built
  scanPos,                  \* entries the rescan has read so far
  last,                     \* the last call and how it ended
  pre,                      \* the handle's state when the last commit() was called
  unlinked,                 \* keys unlink succeeded on, not written since
  nops,                     \* calls made so far
  readFileStreams,          \* base streams readFile has opened and not yet drained
  committed,                \* a commit() has resolved on this handle
  pathCall,                 \* normalizePath's argument and the platform it runs on
  pathResult,               \* what normalizePath gave for it
  rstream,                  \* the Readable createReadStream returned
  acked                     \* calls that returned while a commit() was suspended

vars ==
  << zip, tmp, staging, overlayMode, preserveOverlayOnCommit, zipfile, entries,
     dirs, overlayFiles, overlayDirs, deleted, activeReadStreams, pc, writer,
     scanPos, last, pre, unlinked, nops, readFileStreams, committed,
     pathCall, pathResult, rstream, acked >>

\* ------------------------------------------------------------------ Base Index

\* The entries of a container in the order the reader enumerates them.
\* commit() adds the files before the directory markers (lines 586-637), so
\* a marker "k/" follows a file "k"; the order among different keys has no
\* effect on the index and is fixed to KeyList's.  The times and attributes
\* an archive stores for its entries are left out: every entry reads as
\* written now, with no attributes.
EntryList(c) ==
  LET fs == SelectSeq(KeyList, LAMBDA k : Has(c.files, k))
      ds == SelectSeq(KeyList, LAMBDA k : k \in c.dirs)
  IN  [i \in 1..Len(fs) |->
         [fileName |-> fs[i], isDirectory |-> FALSE, data |-> c.files[fs[i]],
          mtime |-> Now, mode |-> NoMode]]
      \o [i \in 1..Len(ds) |->
         [fileName |-> ds[i], isDirectory |-> TRUE, data |-> << >>,
          mtime |-> Now, mode |-> NoMode]]

\* The "entry" handler of openAndScanZip: ix is [entries, dirs].  An entry's
\* fileName is kept as its key, its trailing "/" as isDirectory; data is the
\* content its read stream gives.
ScanEntry(ix, e) ==
  LET parts == e.fileName
      meta  == [isDirectory |-> e.isDirectory,
                size |-> IF e.isDirectory THEN 0 ELSE Len(e.data),
                mtime |-> e.mtime, mode |-> e.mode,
                data |-> e.data]
      withRoot ==
        IF Len(parts) = 1
        THEN Put(ix.dirs, Root,
                 (IF Has(ix.dirs, Root) THEN ix.dirs[Root] ELSE {}) \cup {parts[1]})
        ELSE ix.dirs
      parents == { SubSeq(parts, 1, i) : i \in 1..(Len(parts) - 1) }
      withParents ==
        [d \in (DOMAIN withRoot) \cup parents |->
           (IF Has(withRoot, d) THEN withRoot[d] ELSE {})
           \cup (IF d \in parents THEN {parts[Len(d) + 1]} ELSE {})]
  IN  [entries |-> Put(ix.entries, e.fileName, meta), dirs |-> withParents]

EmptyIndex == [entries |-> EmptyMap, dirs |-> EmptyMap]

RECURSIVE ScanFrom(_, _, _)
ScanFrom(ix, list, n) ==
  IF n = 0 THEN ix ELSE ScanEntry(ScanFrom(ix, list, n - 1), list[n])

\* The index openAndScanZip builds from a whole container.
ScanAll(c) == ScanFrom(EmptyIndex, EntryList(c), Len(EntryList(c)))

\* ------------------------------------------------------------------ helpers

\* ensureParentDirs(p, true): the prefixes it adds to overlayDirs.
ensureParentDirs(p) == { SubSeq(p, 1, i + 1) : i \in 1..(Len(p) - 2) }

\* The state of a handle that the queries read.
Handle ==
  [zipfile |-> zipfile, entries |-> entries, dirs |-> dirs,
   overlayFiles |-> overlayFiles, overlayDirs |-> overlayDirs,
   deleted |-> deleted, staging |-> staging]

\* The handle open() returns on container c: openAndScanZip's index of c and
\* an empty overlay.
OpenOn(c) ==
  [zipfile |-> IF c.exists THEN "open" ELSE "null",
   entries |-> ScanAll(c).entries, dirs |-> ScanAll(c).dirs,
   overlayFiles |-> EmptyMap, overlayDirs |-> {}, deleted |-> {},
   staging |-> EmptyMap]

pathExistsOf(h, p) ==
  /\ p \notin h.deleted
  /\ \/ Has(h.overlayFiles, p)
     \/ p \in h.overlayDirs
     \/ Has(h.entries, p)

isDirectoryPathOf(h, p) ==
  \/ p \in h.overlayDirs
  \/ Has(h.entries, p) /\ h.entries[p].isDirectory
  \/ \E f \in DOMAIN h.overlayFiles :
       /\ f \notin h.deleted
       /\ \E i \in 1..(Len(f) - 1) : SubSeq(f, 1, i) = p

pathExists(p) == pathExistsOf(Handle, p)

isDirectoryPath(p) == isDirectoryPathOf(Handle, p)

\* ------------------------------------------------------------------ queries

\* What a query gives: its result, or the error it throws (its code).
\* FS_ENOENT is the file system's own error for a staging file that is gone,
\* CLOSED yauzl's error for a session that was closed.
Content(d) == [ok |-> TRUE, code |-> "OK", data |-> d]

Err(code) == [ok |-> FALSE, code |-> code, data |-> << >>]

StatsLike(isDir, size, mtime, mode) ==
  [ok |-> TRUE, code |-> "OK", isFile |-> ~isDir, isDirectory |-> isDir, size |-> size,
   mtime |-> mtime, mode |-> mode]

StatErr(code) ==
  [ok |-> FALSE, code |-> code, isFile |-> FALSE, isDirectory |-> FALSE, size |-> 0,
   mtime |-> Now, mode |-> NoMode]

Listing(names) == [ok |-> TRUE, code |-> "OK", names |-> names]

ListErr(code) == [ok |-> FALSE, code |-> code, names |-> {}]

\* The bytes of an overlay entry; a disk blob is read from its staging file.
BlobRead(h, e) ==
  IF e.kind = "memory" THEN Content(e.data)
  ELSE IF Has(h.staging, e.absPath) THEN Content(h.staging[e.absPath])
  ELSE Err("FS_ENOENT")

\* stat that looks at the deletion set before the explicit directories.
statOfDeletedFirst(h, p) ==
  IF Has(h.overlayFiles, p)
  THEN LET e == h.overlayFiles[p]
       IN  StatsLike(FALSE, IF e.kind = "memory" THEN Len(e.data) ELSE e.size,
                     e.mtime, e.mode)
  ELSE IF p \in h.deleted THEN StatErr("ENOENT")
  ELSE IF p \in h.overlayDirs THEN StatsLike(TRUE, 0, Now, NoMode)
  ELSE IF Has(h.entries, p)
  THEN StatsLike(h.entries[p].isDirectory, h.entries[p].size,
                 h.entries[p].mtime, h.entries[p].mode)
  ELSE IF isDirectoryPathOf(h, p) THEN StatsLike(TRUE, 0, Now, NoMode)
  ELSE StatErr("ENOENT")

statOf(h, p) ==
  IF Has(h.overlayFiles, p)
  THEN LET e == h.overlayFiles[p]
       IN  StatsLike(FALSE, IF e.kind = "memory" THEN Len(e.data) ELSE e.size,
                     e.mtime, e.mode)
  ELSE IF p \in h.overlayDirs THEN StatsLike(TRUE, 0, Now, NoMode)
  ELSE IF p \in h.deleted THEN StatErr("ENOENT")
  ELSE IF Has(h.entries, p)
  THEN StatsLike(h.entries[p].isDirectory, h.entries[p].size,
                 h.entries[p].mtime, h.entries[p].mode)
  ELSE IF isDirectoryPathOf(h, p) THEN StatsLike(TRUE, 0, Now, NoMode)
  ELSE StatErr("ENOENT")

readFileOf(h, p) ==
  IF Has(h.overlayFiles, p) THEN BlobRead(h, h.overlayFiles[p])
  ELSE IF p \in h.overlayDirs THEN Err("EISDIR")
  ELSE IF p \in h.deleted THEN Err("ENOENT")
  ELSE IF isDirectoryPathOf(h, p) THEN Err("EISDIR")
  ELSE IF ~Has(h.entries, p) THEN Err("ENOENT")
  ELSE IF h.entries[p].isDirectory THEN Err("EISDIR")
  ELSE IF h.zipfile = "null" THEN Err("ENOENT")
  ELSE IF h.zipfile = "closed" THEN Err("CLOSED")
  ELSE Content(h.entries[p].data)

\* readdir's listing, as the set of names the sorted array holds.  A key's
\* parent, parts.slice(0, -1), is Root for a one-segment key, which is the
\* code's separate branch for root-level names.
readdirOf(h, p) ==
  IF p \in h.deleted THEN ListErr("ENOENT")
  ELSE IF ~isDirectoryPathOf(h, p) /\ p # Root /\ Has(h.overlayFiles, p)
  THEN ListErr("ENOTDIR")
  ELSE IF ~isDirectoryPathOf(h, p) /\ p # Root /\ Has(h.entries, p)
          /\ ~h.entries[p].isDirectory
  THEN ListErr("ENOTDIR")
  ELSE IF ~isDirectoryPathOf(h, p) /\ p # Root /\ ~Has(h.entries, p)
          /\ p \notin h.overlayDirs
  THEN ListErr("ENOENT")
  ELSE Listing(
          (IF Has(h.dirs, p) THEN h.dirs[p] ELSE {})
          \cup { f[Len(f)] : f \in { g \in DOMAIN h.overlayFiles :
                   g \notin h.deleted /\ SubSeq(g, 1, Len(g) - 1) = p } }
          \cup { d[Len(d)] : d \in { g \in h.overlayDirs :
                   SubSeq(g, 1, Len(g) - 1) = p } })

stat(p) == statOf(Handle, p)

readFile(p) == readFileOf(Handle, p)

readdir(p) == readdirOf(Handle, p)

\* ------------------------------------------------------------------ bookkeeping

\* The record of a call: what was called, on which key, with which input, and
\* how it ended ("OK", an error code, or "PENDING" while commit() is suspended).
Call(op, k, data, recursive, res) ==
  [op |-> op, key |-> k, data |-> data, recursive |-> recursive, res |-> res]

\* What commit() finds when it is called.
Snapshot ==
  [valid |-> TRUE, zip |-> zip, tmp |-> tmp, zipfile |-> zipfile,
   entries |-> entries, dirs |-> dirs, overlayFiles |-> overlayFiles,
   overlayDirs |-> overlayDirs, deleted |-> deleted,
   activeReadStreams |-> activeReadStreams, unlinked |-> unlinked,
   committed |-> committed,
   reads |-> [k \in Keys |-> readFile(k)],
   stats |-> [k \in Keys |-> stat(k)],
   lists |-> [k \in Keys \cup {Root} |-> readdir(k)]]

NoSnapshot ==
  [valid |-> FALSE, zip |-> NoFile, tmp |-> NoFile, zipfile |-> "null",
   entries |-> EmptyMap, dirs |-> EmptyMap, overlayFiles |-> EmptyMap,
   overlayDirs |-> {}, deleted |-> {}, activeReadStreams |-> 0, unlinked |-> {},
   committed |-> FALSE,
   reads |-> [k \in Keys |-> Err("ENOENT")],
   stats |-> [k \in Keys |-> StatErr("ENOENT")],
   lists |-> [k \in Keys \cup {Root} |-> ListErr("ENOENT")]]

NoWriter == [files |-> EmptyMap, dirs |-> {}]

\* No Readable has been created.  A Readable is "open" until push(null)
\* ("ended") or destroy(err) ("errored"); reading is set while a call of its
\* read() has not pushed yet; sources are the underlying streams its read()
\* calls have created; delivered is what it has pushed to its consumer; fault
\* records an I/O error of an underlying stream.
NoStream ==
  [state |-> "none", key |-> Root, reading |-> FALSE, sources |-> << >>,
   delivered |-> << >>, fault |-> FALSE]

\* A call other than commit() returns: it is counted and recorded.
Returns(c) ==
  /\ nops < MaxOps
  /\ nops' = nops + 1
  /\ last' = c
  /\ pre' = NoSnapshot

Options == << overlayMode, preserveOverlayOnCommit >>

Disk == << zip, tmp >>

BaseIndex == << entries, dirs >>

CommitState == << pc, writer, scanPos >>

PathState == << pathCall, pathResult >>

\* ------------------------------------------------------------------ normalizePath

\* A raw path is a sequence of characters; these stand for the separator, the
\* backslash, the dot, a letter and the colon of a drive prefix.
PathChars == {"/", "\\", ".", "a", ":"}

RECURSIVE StringsOfLength(_)
StringsOfLength(n) ==
  IF n = 0 THEN { << >> }
  ELSE { Append(str, c) : str \in StringsOfLength(n - 1), c \in PathChars }

RawPaths == UNION { StringsOfLength(n) : n \in 0..MaxPathLen }

\* Node's path.isAbsolute on the two platforms.
isAbsolute(platform, p) ==
  IF Len(p) = 0 THEN FALSE
  ELSE IF platform = "posix" THEN p[1] = "/"
  ELSE \/ p[1] \in {"/", "\\"}
       \/ Len(p) > 2 /\ p[1] = "a" /\ p[2] = ":" /\ p[3] \in {"/", "\\"}

\* p.replace(/\\/g, "/")
replaceBackslashes(p) == [i \in 1..Len(p) |-> IF p[i] = "\\" THEN "/" ELSE p[i]]

\* .replace(/^\/+/, "")
RECURSIVE stripLeadingSlashes(_)
stripLeadingSlashes(p) ==
  IF Len(p) > 0 /\ p[1] = "/" THEN stripLeadingSlashes(Tail(p)) ELSE p

\* normalized.includes("..")
includesDotDot(p) == \E i \in 1..(Len(p) - 1) : p[i] = "." /\ p[i + 1] = "."

\* p.split("/").indexOf("..") !== -1
hasDotDotSegment(p) ==
  \E i \in 1..(Len(p) - 1) :
    /\ p[i] = "." /\ p[i + 1] = "."
    /\ i = 1 \/ p[i - 1] = "/"
    /\ i + 1 = Len(p) \/ p[i + 2] = "/"

\* yauzl.validateFileName: the message it returns, or "null".
validateFileName(fileName) ==
  IF \E i \in 1..Len(fileName) : fileName[i] = "\\" THEN "invalid characters in fileName"
  ELSE IF \/ Len(fileName) > 1 /\ fileName[1] = "a" /\ fileName[2] = ":"
          \/ Len(fileName) > 0 /\ fileName[1] = "/"
  THEN "absolute path"
  ELSE IF hasDotDotSegment(fileName) THEN "invalid relative path"
  ELSE "null"

Accepted(p) == [called |-> TRUE, ok |-> TRUE, value |-> p, error |-> "none"]

Rejected(msg) == [called |-> TRUE, ok |-> FALSE, value |-> << >>, error |-> msg]

NotCalled == [called |-> FALSE, ok |-> FALSE, value |-> << >>, error |-> "none"]

normalizePath(platform, p) ==
  LET normalized == stripLeadingSlashes(replaceBackslashes(p))
  IN  IF isAbsolute(platform, p) THEN Rejected("Absolute paths not allowed")
      ELSE IF includesDotDot(normalized) THEN Rejected("Path traversal (..) not allowed")
      ELSE IF validateFileName(normalized) # "null" THEN Rejected(validateFileName(normalized))
      ELSE Accepted(normalized)

\* ------------------------------------------------------------------ open

\* open(): the options, empty overlay, and the initial openAndScanZip of
\* the container found at zipPath.
Init ==
  /\ zip \in InitContainers
  /\ tmp = NoFile
  /\ staging = EmptyMap
  /\ overlayMode \in {"memory", "disk"}
  /\ preserveOverlayOnCommit \in BOOLEAN
  /\ zipfile = OpenOn(zip).zipfile
  /\ entries = OpenOn(zip).entries
  /\ dirs = OpenOn(zip).dirs
  /\ overlayFiles = EmptyMap
  /\ overlayDirs = {}
  /\ deleted = {}
  /\ activeReadStreams = 0
  /\ pc = "idle"
  /\ writer = NoWriter
  /\ scanPos = 0
  /\ last = Call("open", Root, << >>, FALSE, "OK")
  /\ pre = NoSnapshot
  /\ unlinked = {}
  /\ nops = 0
  /\ readFileStreams = 0
  /\ committed = FALSE
  /\ pathCall = [platform |-> "posix", raw |-> << >>]
  /\ pathResult = NotCalled
  /\ rstream = NoStream
  /\ acked = {}

\* ------------------------------------------------------------------ writeFile

\* The staging paths in use: files on disk and paths overlay entries or the
\* writer still name.
UsedPaths ==
  (DOMAIN staging)
  \cup { overlayFiles[k].absPath : k \in { x \in DOMAIN overlayFiles : overlayFiles[x].kind = "disk" } }
  \cup { writer.files[k].path : k \in DOMAIN writer.files }

\* `${Date.now()}-${Math.random()...}`: a path no file or entry has.
FreshPath == CHOOSE n \in 1..(Cardinality(UsedPaths) + 1) : n \notin UsedPaths

MemoryEntry(inp) ==
  [kind |-> "memory", data |-> inp.data, mtime |-> inp.mtime, mode |-> inp.mode]

\* A disk entry that drops the options writeFile was given.
DiskEntryWithoutOptions(path, inp) ==
  [kind |-> "disk", absPath |-> path, size |-> Len(inp.data),
   mtime |-> Now, mode |-> NoMode]

DiskEntry(path, inp) ==
  [kind |-> "disk", absPath |-> path, size |-> Len(inp.data),
   mtime |-> inp.mtime, mode |-> inp.mode]

\* writeFile that leaves an entry the overlay already holds for k in place.
writeFileKeepsFirst(k, inp) ==
  /\ Returns(Call("writeFile", k, inp.data, FALSE, "OK"))
  /\ overlayDirs' = overlayDirs \cup ensureParentDirs(k)
  /\ IF Has(overlayFiles, k)
     THEN UNCHANGED << overlayFiles, staging >>
     ELSE IF overlayMode = "memory"
     THEN /\ overlayFiles' = Put(overlayFiles, k, MemoryEntry(inp))
          /\ UNCHANGED staging
     ELSE /\ staging' = Put(staging, FreshPath, inp.data)
          /\ overlayFiles' = Put(overlayFiles, k, DiskEntry(FreshPath, inp))
  /\ deleted' = deleted \ {k}
  /\ unlinked' = unlinked \ {k}
  /\ UNCHANGED << Disk, Options, readFileStreams, committed, PathState, rstream, acked, zipfile, BaseIndex, activeReadStreams, CommitState >>

\* writeFile that leaves the deletion set as it is.
writeFileKeepsDeleted(k, inp) ==
  /\ Returns(Call("writeFile", k, inp.data, FALSE, "OK"))
  /\ overlayDirs' = overlayDirs \cup ensureParentDirs(k)
  /\ IF overlayMode = "memory"
     THEN /\ overlayFiles' = Put(overlayFiles, k, MemoryEntry(inp))
          /\ UNCHANGED staging
     ELSE /\ staging' = Put(staging, FreshPath, inp.data)
          /\ overlayFiles' = Put(overlayFiles, k, DiskEntry(FreshPath, inp))
  /\ unlinked' = unlinked \ {k}
  /\ UNCHANGED << Disk, Options, readFileStreams, committed, PathState, rstream, acked, zipfile,
                  BaseIndex, deleted, activeReadStreams, CommitState >>

\* writeFile(k, data, opts).  In disk mode the staging file is written before
\* the entry is set, and that write may fail after ensureParentDirs has run.
writeFile(k, inp) ==
  \/ /\ Returns(Call("writeFile", k, inp.data, FALSE, "OK"))
     /\ overlayDirs' = overlayDirs \cup ensureParentDirs(k)
     /\ IF overlayMode = "memory"
        THEN /\ overlayFiles' = Put(overlayFiles, k, MemoryEntry(inp))
             /\ UNCHANGED staging
        ELSE /\ staging' = Put(staging, FreshPath, inp.data)
             /\ overlayFiles' = Put(overlayFiles, k, DiskEntry(FreshPath, inp))
     /\ deleted' = deleted \ {k}
     /\ unlinked' = unlinked \ {k}
     /\ UNCHANGED << Disk, Options, readFileStreams, committed, PathState, rstream, acked, zipfile, BaseIndex, activeReadStreams, CommitState >>
  \/ /\ overlayMode = "disk"
     /\ Returns(Call("writeFile", k, inp.data, FALSE, "EIO_STAGING"))
     /\ overlayDirs' = overlayDirs \cup ensureParentDirs(k)
     /\ UNCHANGED << Disk, staging, Options, readFileStreams, committed, PathState, rstream, acked, zipfile, BaseIndex, overlayFiles, deleted,
                     activeReadStreams, CommitState, unlinked >>

\* ------------------------------------------------------------------ mkdir

\* How mkdir(k, recursive) ends.  It has removed k from the deletion set
\* before it calls pathExists and isDirectoryPath on the parent.
mkdirResult(k, recursive) ==
  IF k \in overlayDirs THEN (IF recursive THEN "NOOP" ELSE "EEXIST")
  ELSE IF Has(entries, k) THEN (IF recursive THEN "NOOP" ELSE "EEXIST")
  ELSE IF ~recursive /\ Len(k) > 1
          /\ ~pathExistsOf([Handle EXCEPT !.deleted = deleted \ {k}], SubSeq(k, 1, Len(k) - 1))
          /\ ~isDirectoryPathOf([Handle EXCEPT !.deleted = deleted \ {k}], SubSeq(k, 1, Len(k) - 1))
  THEN "ENOENT"
  ELSE "OK"

mkdir(k, recursive) ==
  LET res == mkdirResult(k, recursive)
  IN  /\ Returns(Call("mkdir", k, << >>, recursive, IF res = "NOOP" THEN "OK" ELSE res))
      /\ deleted' = deleted \ {k}
      /\ overlayDirs' =
           IF res = "OK"
           THEN overlayDirs \cup (IF recursive THEN ensureParentDirs(k) ELSE {}) \cup {k}
           ELSE overlayDirs
      /\ UNCHANGED << Disk, staging, Options, readFileStreams, committed, PathState, rstream, acked, zipfile, BaseIndex, overlayFiles,
                      activeReadStreams, CommitState, unlinked >>

\* ------------------------------------------------------------------ unlink

\* unlink's outcome without its look at the deletion set.
unlinkResultIgnoresDeleted(k) ==
  IF k \in overlayDirs THEN "EISDIR"
  ELSE IF isDirectoryPath(k) THEN "EISDIR"
  ELSE IF Has(overlayFiles, k) THEN "OVERLAY"
  ELSE IF ~Has(entries, k) THEN "ENOENT"
  ELSE IF entries[k].isDirectory THEN "EISDIR"
  ELSE "BASE"

\* How unlink(k) ends: an error code, "OVERLAY" when it removes an overlay
\* file, "BASE" when it adds a base file to the deletion set.
unlinkResult(k) ==
  IF k \in deleted THEN "ENOENT"
  ELSE IF k \in overlayDirs THEN "EISDIR"
  ELSE IF isDirectoryPath(k) THEN "EISDIR"
  ELSE IF Has(overlayFiles, k) THEN "OVERLAY"
  ELSE IF ~Has(entries, k) THEN "ENOENT"
  ELSE IF entries[k].isDirectory THEN "EISDIR"
  ELSE "BASE"

unlink(k) ==
  LET res == unlinkResult(k)
  IN  /\ Returns(Call("unlink", k, << >>, FALSE,
                      IF res \in {"OVERLAY", "BASE"} THEN "OK" ELSE res))
      /\ overlayFiles' = IF res = "OVERLAY" THEN Del(overlayFiles, k) ELSE overlayFiles
      /\ staging' =
           IF res = "OVERLAY" /\ overlayFiles[k].kind = "disk"
           THEN Del(staging, overlayFiles[k].absPath)
           ELSE staging
      /\ deleted' = IF res = "BASE" THEN deleted \cup {k} ELSE deleted
      /\ unlinked' = IF res \in {"OVERLAY", "BASE"} THEN unlinked \cup {k} ELSE unlinked
      /\ UNCHANGED << Disk, Options, readFileStreams, committed, PathState, rstream, acked, zipfile, BaseIndex, overlayDirs,
                      activeReadStreams, CommitState >>

\* ------------------------------------------------------------------ close

\* close() that releases the session and leaves the staging files alone.
closeKeepsStagingFiles ==
  /\ Returns(Call("close", Root, << >>, FALSE, "OK"))
  /\ zipfile' = "null"
  /\ UNCHANGED << Disk, staging, Options, readFileStreams, committed, PathState, rstream, acked, BaseIndex,
                  overlayFiles, overlayDirs, deleted, activeReadStreams, CommitState,
                  unlinked >>

close ==
  /\ Returns(Call("close", Root, << >>, FALSE, "OK"))
  /\ zipfile' = "null"
  /\ staging' =
       IF overlayMode = "disk"
       THEN [p \in (DOMAIN staging) \
                   { overlayFiles[k].absPath :
                       k \in { x \in DOMAIN overlayFiles : overlayFiles[x].kind = "disk" } }
             |-> staging[p]]
       ELSE staging
  /\ UNCHANGED << Disk, Options, readFileStreams, committed, PathState, rstream, acked, BaseIndex, overlayFiles, overlayDirs, deleted,
                  activeReadStreams, CommitState, unlinked >>

\* ------------------------------------------------------------------ createReadStream

\* What the first read() of createReadStream(k)'s stream does: "DATA" for an
\* overlay file, "ENOENT" through the stream's error channel, or "BASE" when
\* it opens a base content stream.
streamResult(k) ==
  IF Has(overlayFiles, k) THEN "DATA"
  ELSE IF k \in deleted THEN "ENOENT"
  ELSE IF ~Has(entries, k) \/ entries[k].isDirectory THEN "ENOENT"
  ELSE IF zipfile = "null" THEN "ENOENT"
  ELSE "BASE"

createReadStream(k) ==
  LET res == streamResult(k)
  IN  /\ res = "BASE" => activeReadStreams < MaxStreams
      /\ Returns(Call("createReadStream", k, << >>, FALSE, res))
      /\ activeReadStreams' = IF res = "BASE" THEN activeReadStreams + 1 ELSE activeReadStreams
      /\ UNCHANGED << Disk, staging, Options, readFileStreams, committed, PathState, rstream, acked, zipfile, BaseIndex, overlayFiles,
                      overlayDirs, deleted, CommitState, unlinked >>

\* The "end" (or "error") event of an open base stream.
baseStreamEnd ==
  /\ activeReadStreams > 0
  /\ activeReadStreams' = activeReadStreams - 1
  /\ pre' = NoSnapshot
  /\ UNCHANGED << Disk, staging, Options, readFileStreams, committed, PathState, rstream, acked, zipfile, BaseIndex, overlayFiles,
                  overlayDirs, deleted, CommitState, last, unlinked, nops >>

\* ------------------------------------------------------------------ readFile in flight

\* readFile(k) on a base file, up to its await of the base stream it opens
\* (openReadStreamFromYauzl, then streamToBuffer).  activeReadStreams is not
\* touched.
readFileOpen(k) ==
  /\ readFileOf([Handle EXCEPT !.zipfile = "open"], k).ok
  /\ ~Has(overlayFiles, k)
  /\ zipfile = "open"
  /\ readFileStreams < MaxStreams
  /\ readFileStreams' = readFileStreams + 1
  /\ UNCHANGED << Disk, staging, Options, zipfile, BaseIndex, overlayFiles, overlayDirs,
                  deleted, activeReadStreams, CommitState, last, pre, unlinked, nops,
                  committed, PathState, rstream, acked >>

\* The stream readFile awaits ends and readFile resolves.
readFileDone ==
  /\ readFileStreams > 0
  /\ readFileStreams' = readFileStreams - 1
  /\ UNCHANGED << Disk, staging, Options, zipfile, BaseIndex, overlayFiles, overlayDirs,
                  deleted, activeReadStreams, CommitState, last, pre, unlinked, nops,
                  committed, PathState, rstream, acked >>

\* ------------------------------------------------------------------ commit

\* What the writer holds for a file: a buffer (addBuffer), a staging path
\* read when the entry is serialized (addFile), or a base entry whose stream
\* is opened when the entry is serialized (addReadStreamLazy).
FromBuffer(d) == [src |-> "buffer", data |-> d, path |-> 0]

FromFile(path) == [src |-> "file", data |-> << >>, path |-> path]

FromBase(d) == [src |-> "base", data |-> d, path |-> 0]

\* The three loops of commit() that fill the new yazl ZipFile.
BuildWriter ==
  LET ofiles == { k \in DOMAIN overlayFiles : k \notin deleted }
      bfiles == { k \in DOMAIN entries :
                    /\ k \notin deleted
                    /\ ~Has(overlayFiles, k)
                    /\ ~entries[k].isDirectory
                    /\ zipfile # "null" }
  IN  [files |->
         [k \in ofiles \cup bfiles |->
            IF k \in ofiles
            THEN (IF overlayFiles[k].kind = "memory"
                  THEN FromBuffer(overlayFiles[k].data)
                  ELSE FromFile(overlayFiles[k].absPath))
            ELSE FromBase(entries[k].data)],
       dirs |-> { d \in overlayDirs : d \notin deleted }]

\* commit() is refused while base streams are active.
commitBlocked ==
  /\ activeReadStreams > 0
  /\ nops < MaxOps
  /\ nops' = nops + 1
  /\ pre' = Snapshot
  /\ last' = Call("commit", Root, << >>, FALSE, "EBLOCKED")
  /\ UNCHANGED << Disk, staging, Options, readFileStreams, committed, PathState, rstream, acked, zipfile, BaseIndex, overlayFiles,
                  overlayDirs, deleted, activeReadStreams, CommitState, unlinked >>

\* commit() that starts without looking at the counter of active streams.
commitBeginIgnoresStreams ==
  /\ pc = "idle"
  /\ nops < MaxOps
  /\ nops' = nops + 1
  /\ pre' = Snapshot
  /\ last' = Call("commit", Root, << >>, FALSE, "PENDING")
  /\ writer' = BuildWriter
  /\ pc' = "writing"
  /\ UNCHANGED << Disk, staging, Options, readFileStreams, committed, PathState, rstream, acked, zipfile, BaseIndex, overlayFiles,
                  overlayDirs, deleted, activeReadStreams, scanPos, unlinked >>

\* commit() up to its first suspension: the writer is built and piped to a
\* write stream on the temporary file.
commitBegin ==
  /\ pc = "idle"
  /\ activeReadStreams = 0
  /\ nops < MaxOps
  /\ nops' = nops + 1
  /\ pre' = Snapshot
  /\ last' = Call("commit", Root, << >>, FALSE, "PENDING")
  /\ writer' = BuildWriter
  /\ pc' = "writing"
  /\ UNCHANGED << Disk, staging, Options, readFileStreams, committed, PathState, rstream, acked, zipfile, BaseIndex, overlayFiles,
                  overlayDirs, deleted, activeReadStreams, scanPos, unlinked >>

\* Every source the writer reads while serializing can be read: the staging
\* files exist and the base session is open.
WriterReadable ==
  \A k \in DOMAIN writer.files :
    /\ writer.files[k].src = "file" => Has(staging, writer.files[k].path)
    /\ writer.files[k].src = "base" => zipfile = "open"

\* The container the writer serializes.
Serialized ==
  Container(
    [k \in DOMAIN writer.files |->
       IF writer.files[k].src = "file" THEN staging[writer.files[k].path]
       ELSE writer.files[k].data],
    writer.dirs)

\* The write stream closes: the temporary file is complete.
commitWritten ==
  /\ pc = "writing"
  /\ WriterReadable
  /\ tmp' = Serialized
  /\ pc' = "renaming"
  /\ UNCHANGED << zip, staging, Options, readFileStreams, committed, PathState, rstream, acked, zipfile, BaseIndex, overlayFiles, overlayDirs,
                  deleted, activeReadStreams, writer, scanPos, last, pre, unlinked, nops >>

\* The write stream fails: commit() rejects with its error.
commitWriteError ==
  /\ pc = "writing"
  /\ tmp' = PartialFile
  /\ pc' = "idle"
  /\ writer' = NoWriter
  /\ last' = Call("commit", Root, << >>, FALSE, "EIO_WRITE")
  /\ UNCHANGED << zip, staging, Options, readFileStreams, committed, PathState, rstream, acked, zipfile, BaseIndex, overlayFiles, overlayDirs,
                  deleted, activeReadStreams, scanPos, pre, unlinked, nops >>

\* A staging file or a base entry cannot be read (it is gone, the session is
\* closed, or the read fails): yazl emits "error" on the ZipFile, which has no
\* listener, and the promise commit() awaits never settles.
commitSourceError ==
  /\ pc = "writing"
  /\ \E k \in DOMAIN writer.files : writer.files[k].src \in {"file", "base"}
  /\ tmp' = PartialFile
  /\ pc' = "hung"
  /\ UNCHANGED << zip, staging, Options, readFileStreams, committed, PathState, rstream, acked, zipfile, BaseIndex, overlayFiles, overlayDirs,
                  deleted, activeReadStreams, writer, scanPos, last, pre, unlinked, nops >>

\* fs.promises.rename(tmpPath, zipPath) replaces the container.
commitRenamed ==
  /\ pc = "renaming"
  /\ zip' = tmp
  /\ tmp' = NoFile
  /\ pc' = "renamed"
  /\ UNCHANGED << staging, Options, readFileStreams, committed, PathState, rstream, acked, zipfile, BaseIndex, overlayFiles, overlayDirs,
                  deleted, activeReadStreams, writer, scanPos, last, pre, unlinked, nops >>

\* The rename fails: commit() rejects with its error.
commitRenameError ==
  /\ pc = "renaming"
  /\ pc' = "idle"
  /\ writer' = NoWriter
  /\ last' = Call("commit", Root, << >>, FALSE, "EIO_RENAME")
  /\ UNCHANGED << Disk, staging, Options, readFileStreams, committed, PathState, rstream, acked, zipfile, BaseIndex, overlayFiles, overlayDirs,
                  deleted, activeReadStreams, scanPos, pre, unlinked, nops >>

\* After the rename: the old session is closed and openAndScanZip runs up to
\* its await of yauzl.open, having cleared entries and dirs.
commitReopen ==
  /\ pc = "renamed"
  /\ zipfile' = IF zipfile = "null" THEN "null" ELSE "closed"
  /\ entries' = EmptyMap
  /\ dirs' = EmptyMap
  /\ writer' = NoWriter
  /\ pc' = "opening"
  /\ UNCHANGED << Disk, staging, Options, readFileStreams, committed, PathState, rstream, acked, overlayFiles, overlayDirs, deleted,
                  activeReadStreams, scanPos, last, pre, unlinked, nops >>

\* yauzl.open gives the new session; the first readEntry() is issued.
commitOpened ==
  /\ pc = "opening"
  /\ zipfile' = "open"
  /\ scanPos' = 0
  /\ pc' = "scanning"
  /\ UNCHANGED << Disk, staging, Options, readFileStreams, committed, PathState, rstream, acked, BaseIndex, overlayFiles, overlayDirs, deleted,
                  activeReadStreams, writer, last, pre, unlinked, nops >>

\* yauzl.open fails: commit() rejects after the container was replaced.
commitOpenError ==
  /\ pc = "opening"
  /\ pc' = "idle"
  /\ last' = Call("commit", Root, << >>, FALSE, "EIO_REOPEN")
  /\ UNCHANGED << Disk, staging, Options, readFileStreams, committed, PathState, rstream, acked, zipfile, BaseIndex, overlayFiles, overlayDirs,
                  deleted, activeReadStreams, writer, scanPos, pre, unlinked, nops >>

\* The new session emits "error" during the rescan: commit() rejects with
\* the index as far as it was read.
commitScanError ==
  /\ pc = "scanning"
  /\ pc' = "idle"
  /\ scanPos' = 0
  /\ last' = Call("commit", Root, << >>, FALSE, "EIO_SCAN")
  /\ UNCHANGED << Disk, staging, Options, readFileStreams, committed, PathState, rstream, acked, zipfile, BaseIndex, overlayFiles, overlayDirs,
                  deleted, activeReadStreams, writer, pre, unlinked, nops >>

\* One "entry" event of the rescan.
commitScanEntry ==
  /\ pc = "scanning"
  /\ scanPos < Len(EntryList(zip))
  /\ LET ix == ScanEntry([entries |-> entries, dirs |-> dirs], EntryList(zip)[scanPos + 1])
     IN  /\ entries' = ix.entries
         /\ dirs' = ix.dirs
  /\ scanPos' = scanPos + 1
  /\ UNCHANGED << Disk, staging, Options, readFileStreams, committed, PathState, rstream, acked, zipfile, overlayFiles, overlayDirs, deleted,
                  activeReadStreams, pc, writer, last, pre, unlinked, nops >>

\* The "end" event of the rescan: the overlay is cleared unless it is to be
\* preserved, and commit() resolves.
commitEnd ==
  /\ pc = "scanning"
  /\ scanPos = Len(EntryList(zip))
  /\ IF preserveOverlayOnCommit
     THEN UNCHANGED << overlayFiles, overlayDirs, deleted >>
     ELSE /\ overlayFiles' = EmptyMap
          /\ overlayDirs' = {}
          /\ deleted' = {}
  /\ pc' = "idle"
  /\ scanPos' = 0
  /\ last' = Call("commit", Root, << >>, FALSE, "OK")
  /\ committed' = TRUE
  /\ UNCHANGED << Disk, staging, Options, readFileStreams, PathState, rstream, acked, zipfile, BaseIndex, activeReadStreams,
                  writer, pre, unlinked, nops >>

\* ------------------------------------------------------------------ specifications

\* The caller awaits each call before making the next one.
Next ==
  \/ pc = "idle" /\ \E k \in Keys, inp \in Inputs : writeFile(k, inp)
  \/ pc = "idle" /\ \E k \in Keys, r \in BOOLEAN : mkdir(k, r)
  \/ pc = "idle" /\ \E k \in Keys : unlink(k)
  \/ pc = "idle" /\ close
  \/ pc = "idle" /\ \E k \in Keys : createReadStream(k)
  \/ pc = "idle" /\ baseStreamEnd
  \/ pc = "idle" /\ commitBlocked
  \/ commitBegin
  \/ commitWritten
  \/ commitWriteError
  \/ commitSourceError
  \/ commitRenamed
  \/ commitRenameError
  \/ commitReopen
  \/ commitOpened
  \/ commitOpenError
  \/ commitScanError
  \/ commitScanEntry
  \/ commitEnd

Spec == Init /\ [][Next]_vars

\* The caller does not await its reads: streams are opened, drained and ended
\* while a commit() is suspended at any of its I/O points.
InterleavedNext ==
  \/ Next
  \/ pc \notin {"idle", "hung"} /\ \E k \in Keys : createReadStream(k)
  \/ pc \notin {"idle", "hung"} /\ baseStreamEnd
  \/ \E k \in Keys : readFileOpen(k)
  \/ readFileDone

InterleavedSpec == Init /\ [][InterleavedNext]_vars

\* normalizePath applied to one raw path on one platform; the handle plays no
\* part.
PathInit ==
  /\ Init
  /\ zip = NoFile
  /\ overlayMode = "memory"
  /\ preserveOverlayOnCommit = FALSE

normalizeCall ==
  /\ ~pathResult.called
  /\ \E platform \in {"posix", "win32"}, raw \in RawPaths :
       /\ pathCall' = [platform |-> platform, raw |-> raw]
       /\ pathResult' = normalizePath(platform, raw)
  /\ UNCHANGED << Disk, staging, Options, zipfile, BaseIndex, overlayFiles, overlayDirs,
                  deleted, activeReadStreams, CommitState, last, pre, unlinked, nops,
                  readFileStreams, committed, rstream, acked >>

PathNext == normalizeCall

PathSpec == PathInit /\ [][PathNext]_vars

\* ------------------------------------------------------------------ createReadStream, step by step

\* this.push(chunk) on the Readable: the chunk reaches the consumer and read()
\* may be called again; after push(null) it is a push after EOF, an error
\* unless the Readable has been destroyed by then; on a destroyed Readable it
\* is ignored.
Pushed(rs, chunk) ==
  IF rs.state = "open"
  THEN { [rs EXCEPT !.delivered = @ \o chunk, !.reading = FALSE] }
  ELSE IF rs.state = "ended"
  THEN { rs, [rs EXCEPT !.state = "errored"] }
  ELSE { rs }

\* this.push(null).
PushedEnd(rs) ==
  IF rs.state = "open" THEN [rs EXCEPT !.state = "ended", !.reading = FALSE] ELSE rs

\* this.destroy(err).
Destroyed(rs) ==
  IF rs.state = "open"
  THEN { [rs EXCEPT !.state = "errored"] }
  ELSE IF rs.state = "ended"
  THEN { rs, [rs EXCEPT !.state = "errored"] }
  ELSE { rs }

\* An underlying stream: fs.createReadStream on a staging file, or the
\* stream yauzl opens on an entry; it emits its content one chunk at a time.
Source(kind, data) == [kind |-> kind, status |-> "opening", pos |-> 0, data |-> data]

\* createReadStream(k): the Readable is constructed; nothing is looked at yet.
streamCreate(k) ==
  /\ rstream.state = "none"
  /\ Returns(Call("createReadStream", k, << >>, FALSE, "OK"))
  /\ rstream' = [NoStream EXCEPT !.state = "open", !.key = k]
  /\ UNCHANGED << Disk, staging, Options, readFileStreams, committed, PathState, acked, zipfile,
                  BaseIndex, overlayFiles, overlayDirs, deleted, activeReadStreams,
                  CommitState, unlinked >>

\* One call of the Readable's read(): the consumer pulls while no call is
\* waiting to push.
streamRead ==
  LET k == rstream.key
  IN
  /\ rstream.state = "open" /\ ~rstream.reading
  /\ Len(rstream.sources) < MaxSources
  /\ IF Has(overlayFiles, k)
     THEN IF overlayFiles[k].kind = "memory"
          THEN /\ rstream' = PushedEnd(CHOOSE r \in Pushed(rstream, overlayFiles[k].data) : TRUE)
               /\ UNCHANGED activeReadStreams
          ELSE /\ rstream' =
                    [rstream EXCEPT
                       !.reading = TRUE,
                       !.sources = Append(@, Source("disk",
                                      IF Has(staging, overlayFiles[k].absPath)
                                      THEN staging[overlayFiles[k].absPath] ELSE << >>))]
               /\ UNCHANGED activeReadStreams
     ELSE IF \/ k \in deleted
             \/ ~Has(entries, k)
             \/ entries[k].isDirectory
             \/ zipfile = "null"
     THEN /\ rstream' \in Destroyed([rstream EXCEPT !.reading = TRUE])
          /\ UNCHANGED activeReadStreams
     ELSE /\ activeReadStreams' = activeReadStreams + 1
          /\ rstream' =
               [rstream EXCEPT
                  !.reading = TRUE,
                  !.sources = Append(@, Source("base", entries[k].data))]
  /\ UNCHANGED << Disk, staging, Options, readFileStreams, committed, PathState, acked, zipfile,
                  BaseIndex, overlayFiles, overlayDirs, deleted, CommitState, last, pre,
                  unlinked, nops >>

\* An underlying stream opens: openReadStreamFromYauzl resolves and the
\* handlers are attached, or the staging file is opened.
sourceOpened(i) ==
  /\ rstream.sources[i].status = "opening"
  /\ rstream.sources[i].kind = "base" => zipfile = "open"
  /\ rstream' = [rstream EXCEPT !.sources[i].status = "flowing"]
  /\ UNCHANGED << Disk, staging, Options, readFileStreams, committed, PathState, acked, zipfile,
                  BaseIndex, overlayFiles, overlayDirs, deleted, activeReadStreams,
                  CommitState, last, pre, unlinked, nops >>

\* An underlying stream fails to open: openReadStreamFromYauzl rejects and
\* the catch block destroys the Readable, or the disk stream emits "error".
sourceOpenError(i) ==
  /\ rstream.sources[i].status = "opening"
  /\ rstream' \in Destroyed([rstream EXCEPT !.sources[i].status = "failed", !.fault = TRUE])
  /\ UNCHANGED << Disk, staging, Options, readFileStreams, committed, PathState, acked, zipfile,
                  BaseIndex, overlayFiles, overlayDirs, deleted, activeReadStreams,
                  CommitState, last, pre, unlinked, nops >>

\* The "data" handler: the next chunk of an underlying stream is pushed.
sourceData(i) ==
  LET src == rstream.sources[i]
  IN  /\ src.status = "flowing" /\ src.pos < Len(src.data)
      /\ rstream' \in Pushed([rstream EXCEPT !.sources[i].pos = @ + 1],
                             << src.data[src.pos + 1] >>)
      /\ UNCHANGED << Disk, staging, Options, readFileStreams, committed, PathState, acked, zipfile,
                      BaseIndex, overlayFiles, overlayDirs, deleted, activeReadStreams,
                      CommitState, last, pre, unlinked, nops >>

\* The "end" handler: a base stream decrements the counter; push(null).
sourceEnd(i) ==
  LET src == rstream.sources[i]
  IN  /\ src.status = "flowing" /\ src.pos = Len(src.data)
      /\ rstream' = PushedEnd([rstream EXCEPT !.sources[i].status = "done"])
      /\ activeReadStreams' =
           IF src.kind = "base" THEN activeReadStreams - 1 ELSE activeReadStreams
      /\ UNCHANGED << Disk, staging, Options, readFileStreams, committed, PathState, acked, zipfile,
                      BaseIndex, overlayFiles, overlayDirs, deleted, CommitState, last, pre,
                      unlinked, nops >>

\* The "error" handler: a base stream decrements the counter; destroy(err).
sourceError(i) ==
  LET src == rstream.sources[i]
  IN  /\ src.status = "flowing"
      /\ rstream' \in Destroyed([rstream EXCEPT !.sources[i].status = "failed", !.fault = TRUE])
      /\ activeReadStreams' =
           IF src.kind = "base" THEN activeReadStreams - 1 ELSE activeReadStreams
      /\ UNCHANGED << Disk, staging, Options, readFileStreams, committed, PathState, acked, zipfile,
                      BaseIndex, overlayFiles, overlayDirs, deleted, CommitState, last, pre,
                      unlinked, nops >>

\* One Readable, pulled and fed step by step, on an overlay and a base that
\* were set up before it was created.
StreamNext ==
  \/ rstream.state = "none" /\ \E k \in Keys, inp \in Inputs : writeFile(k, inp)
  \/ rstream.state = "none" /\ \E k \in Keys : unlink(k)
  \/ \E k \in Keys : streamCreate(k)
  \/ streamRead
  \/ \E i \in 1..Len(rstream.sources) : sourceOpened(i)
  \/ \E i \in 1..Len(rstream.sources) : sourceOpenError(i)
  \/ \E i \in 1..Len(rstream.sources) : sourceData(i)
  \/ \E i \in 1..Len(rstream.sources) : sourceEnd(i)
  \/ \E i \in 1..Len(rstream.sources) : sourceError(i)

StreamSpec == Init /\ [][StreamNext]_vars

\* ------------------------------------------------------------------ calls made while commit() is suspended

\* The caller does not await commit(): a writeFile, mkdir or unlink runs to
\* its successful end while the commit is suspended at one of its I/O points.
\* The latest such call is recorded in acked with the count of calls it
\* brought nops to; last and pre stay those of the commit.
writeFileDuringCommit(k, inp) ==
  /\ pc \notin {"idle", "hung"}
  /\ nops < MaxOps
  /\ nops' = nops + 1
  /\ acked' = {[call |-> Call("writeFile", k, inp.data, FALSE, "OK"), at |-> nops + 1]}
  /\ overlayDirs' = overlayDirs \cup ensureParentDirs(k)
  /\ IF overlayMode = "memory"
     THEN /\ overlayFiles' = Put(overlayFiles, k, MemoryEntry(inp))
          /\ UNCHANGED staging
     ELSE /\ staging' = Put(staging, FreshPath, inp.data)
          /\ overlayFiles' = Put(overlayFiles, k, DiskEntry(FreshPath, inp))
  /\ deleted' = deleted \ {k}
  /\ unlinked' = unlinked \ {k}
  /\ UNCHANGED << Disk, Options, readFileStreams, committed, PathState, rstream, zipfile,
                  BaseIndex, activeReadStreams, CommitState, last, pre >>

mkdirDuringCommit(k, recursive) ==
  /\ pc \notin {"idle", "hung"}
  /\ nops < MaxOps
  /\ mkdirResult(k, recursive) = "OK"
  /\ nops' = nops + 1
  /\ acked' = {[call |-> Call("mkdir", k, << >>, recursive, "OK"), at |-> nops + 1]}
  /\ deleted' = deleted \ {k}
  /\ overlayDirs' =
       overlayDirs \cup (IF recursive THEN ensureParentDirs(k) ELSE {}) \cup {k}
  /\ UNCHANGED << Disk, staging, Options, readFileStreams, committed, PathState, rstream,
                  zipfile, BaseIndex, overlayFiles, activeReadStreams, CommitState, last,
                  pre, unlinked >>

unlinkDuringCommit(k) ==
  LET res == unlinkResult(k)
  IN  /\ pc \notin {"idle", "hung"}
      /\ nops < MaxOps
      /\ res \in {"OVERLAY", "BASE"}
      /\ nops' = nops + 1
      /\ acked' = {[call |-> Call("unlink", k, << >>, FALSE, "OK"), at |-> nops + 1]}
      /\ overlayFiles' = IF res = "OVERLAY" THEN Del(overlayFiles, k) ELSE overlayFiles
      /\ staging' =
           IF res = "OVERLAY" /\ overlayFiles[k].kind = "disk"
           THEN Del(staging, overlayFiles[k].absPath)
           ELSE staging
      /\ deleted' = IF res = "BASE" THEN deleted \cup {k} ELSE deleted
      /\ unlinked' = unlinked \cup {k}
      /\ UNCHANGED << Disk, Options, readFileStreams, committed, PathState, rstream, zipfile,
                      BaseIndex, overlayDirs, activeReadStreams, CommitState, last, pre >>

\* Awaited calls, and calls made while a commit() is suspended.
ConcurrentNext ==
  \/ Next
  \/ \E k \in Keys, inp \in Inputs : writeFileDuringCommit(k, inp)
  \/ \E k \in Keys, r \in BOOLEAN : mkdirDuringCommit(k, r)
  \/ \E k \in Keys : unlinkDuringCommit(k)

ConcurrentSpec == Init /\ [][ConcurrentNext]_vars

\* ------------------------------------------------------------------ properties

\* The last call was a commit() that resolved, and nothing has happened since.
CommitSucceeded == last.op = "commit" /\ last.res = "OK" /\ pre.valid

\* readFile(k) through a handle freshly opened on the container.
FreshRead(k) == readFileOf(OpenOn(zip), k)

\* The handle a commit() in progress will leave when it resolves on the
\* container as it is now.
AfterCommit ==
  IF preserveOverlayOnCommit
  THEN [Handle EXCEPT !.zipfile = "open", !.entries = ScanAll(zip).entries,
                      !.dirs = ScanAll(zip).dirs]
  ELSE [OpenOn(zip) EXCEPT !.staging = staging]

\* C1: after writeFile(k, data) has succeeded, readFile(k) returns exactly
\* data, whatever k resolved to before the call.
C1_ReadAfterWrite ==
  (last.op = "writeFile" /\ last.res = "OK") => readFile(last.key) = Content(last.data)

\* C1 witness: a base file was overwritten with different bytes and the new
\* bytes are read.
C1_Witness ==
  /\ last.op = "writeFile" /\ last.res = "OK"
  /\ Has(entries, last.key) /\ ~entries[last.key].isDirectory
  /\ entries[last.key].data # last.data
  /\ readFile(last.key) = Content(last.data)

\* C2: after a successful commit(), every key readFile returned content for
\* just before the commit returns the same content, through the committing
\* handle and through a freshly opened one.
C2_CommitKeepsContent ==
  CommitSucceeded =>
    \A k \in Keys :
      pre.reads[k].ok => (readFile(k) = pre.reads[k] /\ FreshRead(k) = pre.reads[k])

\* C3: writeFile(k, data) followed by a successful unlink(k) leaves k absent:
\* readFile(k) and stat(k) fail with ENOENT.
C3_WriteThenUnlinkAbsent ==
  [][ \A k \in Keys :
        (last.op = "writeFile" /\ last.res = "OK" /\ last.key = k
           /\ unlink(k) /\ last'.res = "OK")
        => (readFile(k)'.code = "ENOENT" /\ stat(k)'.code = "ENOENT") ]_vars

\* C4: a key unlink succeeded on and that was not written again before
\* commit() fails with ENOENT through a handle freshly opened after the commit.
C4_UnlinkedAbsentAfterCommit ==
  CommitSucceeded => \A k \in pre.unlinked : FreshRead(k).code = "ENOENT"

\* The container, the Base Index and the overlay are as commit() found them.
AsBeforeCommit ==
  /\ zip = pre.zip
  /\ entries = pre.entries /\ dirs = pre.dirs
  /\ overlayFiles = pre.overlayFiles /\ overlayDirs = pre.overlayDirs
  /\ deleted = pre.deleted

\* C5: a commit() that fails while serializing to the temporary file or while
\* renaming it leaves the container, the Base Index and the overlay as they
\* were, and the error reaches the caller (commit() rejects).
C5_FailedCommitChangesNothing ==
  (last.op = "commit" /\ pre.valid
     /\ (last.res \in {"EIO_WRITE", "EIO_RENAME"} \/ pc = "hung"))
  => (AsBeforeCommit /\ pc = "idle" /\ last.res \in {"EIO_WRITE", "EIO_RENAME"})

\* C6: commit() carries every base file that is neither deleted nor shadowed
\* by an overlay file into the new container unchanged, so it reads the same
\* bytes afterwards, in the same handle and on reopen.
C6_BaseFilesCarried ==
  CommitSucceeded =>
    \A k \in DOMAIN pre.entries :
      (~pre.entries[k].isDirectory /\ k \notin pre.deleted /\ ~Has(pre.overlayFiles, k))
      => /\ Has(zip.files, k) /\ zip.files[k] = pre.entries[k].data
         /\ readFile(k) = Content(pre.entries[k].data)
         /\ FreshRead(k) = Content(pre.entries[k].data)

\* A step of writeFile, mkdir or unlink.
OverlayCall ==
  \/ \E k \in Keys, inp \in Inputs : writeFile(k, inp)
  \/ \E k \in Keys, r \in BOOLEAN : mkdir(k, r)
  \/ \E k \in Keys : unlink(k)

\* C7: writeFile, mkdir and unlink leave the container and the Base Index
\* (entries and dirs) unchanged, and the two change only as the result of a
\* successful commit(): a commit() that has rejected has left them as it
\* found them.
C7_OnlySuccessfulCommitChangesBase ==
  [][ /\ OverlayCall => UNCHANGED << zip, entries, dirs >>
      /\ (~UNCHANGED << zip, entries, dirs >>) => (last'.op = "commit" /\ pre'.valid)
      /\ (last'.op = "commit" /\ pre'.valid /\ last'.res \notin {"OK", "PENDING"})
         => (zip' = pre'.zip /\ entries' = pre'.entries /\ dirs' = pre'.dirs) ]_vars

\* C8: commit() called while the counter of active base streams is nonzero
\* fails at once with CommitBlocked and changes nothing: no temporary file,
\* and the container, the Base Index, the overlay and the counter untouched.
C8_BlockedCommitChangesNothing ==
  (last.op = "commit" /\ pre.valid /\ pre.activeReadStreams > 0)
  => /\ last.res = "EBLOCKED" /\ pc = "idle"
     /\ tmp = pre.tmp /\ zipfile = pre.zipfile
     /\ AsBeforeCommit
     /\ activeReadStreams = pre.activeReadStreams

\* C8 witness: a commit() was refused with staged files in the overlay.
C8_Witness ==
  /\ last.op = "commit" /\ last.res = "EBLOCKED" /\ pre.valid
  /\ activeReadStreams > 0
  /\ overlayFiles # EmptyMap

\* C9: after a successful commit() without preserveOverlayOnCommit the three
\* overlay collections are empty and the files the overlay held are served
\* from the rebuilt Base Index; with it, the three are as before the commit.
C9_OverlayAfterCommit ==
  CommitSucceeded =>
    IF preserveOverlayOnCommit
    THEN /\ overlayFiles = pre.overlayFiles
         /\ overlayDirs = pre.overlayDirs
         /\ deleted = pre.deleted
    ELSE /\ overlayFiles = EmptyMap /\ overlayDirs = {} /\ deleted = {}
         /\ \A k \in DOMAIN pre.overlayFiles :
              pre.reads[k].ok =>
                /\ Has(entries, k) /\ ~entries[k].isDirectory
                /\ readFile(k) = Content(entries[k].data)
                /\ readFile(k) = pre.reads[k]

\* C10: commit() is never partially visible: until the container has been
\* replaced a query sees the view commit() found, and at no point of the
\* commit, the rescan included, is a file missing that is present both before
\* and after it.
C10_CommitNeverPartiallyVisible ==
  (last.op = "commit" /\ pre.valid) =>
    /\ pc \in {"writing", "renaming"} =>
         /\ [k \in Keys |-> readFile(k)] = pre.reads
         /\ [k \in Keys |-> stat(k)] = pre.stats
         /\ [k \in Keys \cup {Root} |-> readdir(k)] = pre.lists
    /\ pc \in {"renamed", "opening", "scanning"} =>
         \A k \in Keys :
           (pre.stats[k].isFile /\ statOf(AfterCommit, k).isFile)
           => (stat(k).isFile /\ (pre.reads[k].ok => readFile(k).ok))

\* C11: when commit() performs its rename of the temporary file over the
\* container, or closes the old base session, no base content stream opened
\* by createReadStream or by readFile is open.
C11_NoBaseReadAcrossReplace ==
  [][ (commitRenamed \/ commitReopen)
      => (activeReadStreams = 0 /\ readFileStreams = 0) ]_vars

\* C12: after mkdir(p, recursive) has succeeded on a path of several
\* segments, stat reports a directory for p and for every proper prefix of
\* p, its first segment included.
C12_RecursiveMkdirMakesAncestors ==
  (last.op = "mkdir" /\ last.recursive /\ last.res = "OK" /\ Len(last.key) > 1)
    => \A i \in 1..Len(last.key) : stat(SubSeq(last.key, 1, i)).isDirectory

\* A key that is already a known directory: an explicit overlay directory or
\* a directory of the Base Index.
KnownDirectory(k) == k \in overlayDirs \/ (Has(entries, k) /\ entries[k].isDirectory)

\* C13: mkdir(k) on a known directory fails with EEXIST without recursive and
\* succeeds with it, and in both cases leaves the explicit directories, the
\* overlay files and the deletion set as they were.
C13_MkdirOnExistingDirectory ==
  [][ \A k \in Keys, r \in BOOLEAN :
        (KnownDirectory(k) /\ mkdir(k, r))
          => /\ last'.res = (IF r THEN "OK" ELSE "EEXIST")
             /\ UNCHANGED << overlayDirs, overlayFiles, deleted >> ]_vars

\* parts.slice(0, -1): the immediate parent of a key.
Parent(k) == SubSeq(k, 1, Len(k) - 1)

\* C14: while an overlay file written by writeFile(k) is live, stat reports
\* a directory for every proper prefix of k, and readdir of k's immediate
\* parent contains k's last segment.
C14_LiveFileImpliesParents ==
  \A k \in DOMAIN overlayFiles :
    k \notin deleted
      => /\ \A i \in 1..(Len(k) - 1) : stat(SubSeq(k, 1, i)).isDirectory
         /\ readdir(Parent(k)).ok
         /\ k[Len(k)] \in readdir(Parent(k)).names

\* C15: readdir(k) fails with ENOTDIR whenever stat(k) reports a file, fails
\* with ENOENT whenever k is deleted or wholly absent (stat(k) finds
\* nothing), and gives an empty listing for the root of a view with no
\* entries.
C15_ReaddirErrors ==
  /\ \A k \in Keys :
       /\ stat(k).isFile => readdir(k).code = "ENOTDIR"
       /\ (k \in deleted \/ stat(k).code = "ENOENT") => readdir(k).code = "ENOENT"
  /\ (DOMAIN entries = {} /\ DOMAIN overlayFiles = {} /\ overlayDirs = {})
       => readdir(Root) = Listing({})

\* C16: unlink(k) fails with ENOENT when k is already deleted or wholly
\* absent, and with EISDIR when k is a directory (explicit overlay
\* directory, base directory, or implicit through a nested live overlay
\* file); it succeeds only on files, and when it fails the overlay file map
\* and the deletion set are unchanged.
C16_UnlinkErrors ==
  [][ \A k \in Keys :
        unlink(k)
          => /\ (k \in deleted \/ stat(k).code = "ENOENT") => last'.res = "ENOENT"
             /\ (k \notin deleted /\ (KnownDirectory(k) \/ isDirectoryPath(k)))
                  => last'.res = "EISDIR"
             /\ last'.res = "OK" => stat(k).isFile
             /\ last'.res \in {"OK", "ENOENT", "EISDIR"}
             /\ last'.res # "OK" => UNCHANGED << overlayFiles, deleted >> ]_vars

\* unlink has failed with EISDIR on a key that is a directory only through
\* a live overlay file nested under it.
C16_Witness ==
  /\ last.op = "unlink" /\ last.res = "EISDIR"
  /\ last.key \notin overlayDirs
  /\ ~Has(entries, last.key)
  /\ \E f \in DOMAIN overlayFiles : Len(f) > Len(last.key) /\ SubSeq(f, 1, Len(last.key)) = last.key

\* C17: for an overlay file written by writeFile(k, data, {mtime, mode}),
\* stat(k) reports a file with the mtime and mode given to writeFile and
\* with the size of the bytes readFile(k) returns, in memory and in disk
\* mode, right after the write and for as long as the entry stays.
C17_StatOfOverlayFile ==
  /\ [](\A k \in DOMAIN overlayFiles :
          /\ stat(k).isFile
          /\ stat(k).mtime = overlayFiles[k].mtime
          /\ stat(k).mode = overlayFiles[k].mode
          /\ readFile(k).ok => stat(k).size = Len(readFile(k).data))
  /\ [][ \A k \in Keys, inp \in Inputs :
           (writeFile(k, inp) /\ last'.res = "OK")
             => /\ stat(k)'.isFile
                /\ stat(k)'.mtime = inp.mtime
                /\ stat(k)'.mode = inp.mode
                /\ readFile(k)'.ok
                /\ stat(k)'.size = Len(readFile(k)'.data) ]_vars

\* A file written in disk mode with a mode of its own is stat'ed.
C17_Witness ==
  /\ last.op = "writeFile" /\ last.res = "OK"
  /\ overlayMode = "disk"
  /\ stat(last.key).isFile
  /\ stat(last.key).mode = 420
  /\ stat(last.key).size = Len(last.data)

\* Two readFile results name the same readable content: both fail, or both
\* return the same bytes.
SameContent(r1, r2) == (r1.ok <=> r2.ok) /\ (r1.ok => r1.data = r2.data)

\* C18: a commit() with nothing staged, made after an earlier commit() of
\* the handle, leaves the set of readable keys and their contents as they
\* were, through the handle and in the container as a fresh handle reads it.
C18_EmptyCommitIdempotent ==
  (/\ CommitSucceeded
   /\ pre.committed
   /\ pre.overlayFiles = EmptyMap /\ pre.overlayDirs = {} /\ pre.deleted = {})
    => \A k \in Keys :
         /\ SameContent(readFile(k), pre.reads[k])
         /\ SameContent(FreshRead(k), readFileOf(OpenOn(pre.zip), k))

\* C19: normalizePath turns backslashes into "/" and strips leading
\* separators; it rejects exactly the inputs that are absolute, that have a
\* segment equal to "..", or that the naming validator refuses; and what it
\* accepts has no leading "/", no backslash and no ".." segment.
C19_NormalizeRejectsExactly ==
  pathResult.called =>
    LET raw == pathCall.raw
        converted == replaceBackslashes(raw)
        stripped == stripLeadingSlashes(converted)
    IN  /\ ~pathResult.ok <=>
             \/ isAbsolute(pathCall.platform, raw)
             \/ hasDotDotSegment(converted)
             \/ validateFileName(stripped) # "null"
        /\ pathResult.ok =>
             /\ pathResult.value = stripped
             /\ Len(pathResult.value) > 0 => pathResult.value[1] # "/"
             /\ \A i \in 1..Len(pathResult.value) : pathResult.value[i] # "\\"
             /\ ~hasDotDotSegment(pathResult.value)

\* The staging files on disk that no overlay entry references.
Orphans ==
  (DOMAIN staging)
  \ { overlayFiles[k].absPath : k \in { x \in DOMAIN overlayFiles : overlayFiles[x].kind = "disk" } }

\* C20: in disk mode, when writeFile overwrites a key that holds a disk blob
\* or unlink removes a disk-blob entry, the superseded staging file is
\* deleted, and the step leaves no staging file that no overlay entry
\* references if there was none before.
C20_SupersededStagingFileDeleted ==
  [][ \A k \in Keys :
        (/\ Has(overlayFiles, k)
         /\ overlayFiles[k].kind = "disk"
         /\ last'.res = "OK"
         /\ unlink(k) \/ \E inp \in Inputs : writeFile(k, inp))
          => /\ overlayFiles[k].absPath \notin DOMAIN staging'
             /\ Orphans = {} => Orphans' = {} ]_vars

\* C21: after a commit() that succeeded in disk mode without
\* preserveOverlayOnCommit, no staging file of the handle is left on disk.
C21_CommitRemovesStagingFiles ==
  (CommitSucceeded /\ overlayMode = "disk" /\ ~preserveOverlayOnCommit)
    => DOMAIN staging = {}

\* C22: close() releases the base session and, in disk mode, leaves no
\* staging file that an overlay entry references; it succeeds whether or
\* not those files were still there.
C22_CloseReleasesAndCleans ==
  last.op = "close"
    => /\ last.res = "OK"
       /\ zipfile = "null"
       /\ overlayMode = "disk"
            => \A k \in DOMAIN overlayFiles :
                 overlayFiles[k].kind = "disk" => ~Has(staging, overlayFiles[k].absPath)

\* A handle in disk mode has been closed with a file staged, and the
\* staging file of that entry is gone.
C22_Witness ==
  /\ last.op = "close"
  /\ last.res = "OK"
  /\ overlayMode = "disk"
  /\ zipfile = "null"
  /\ \E k \in DOMAIN overlayFiles :
       overlayFiles[k].kind = "disk" /\ ~Has(staging, overlayFiles[k].absPath)

\* A live overlay file: in the overlay file map and not in the deletion set.
LiveOverlayFile(k) == Has(overlayFiles, k) /\ k \notin deleted

\* k is a directory only by implication: a live overlay file lies under it.
ImplicitOverlayDirectory(k) ==
  \E f \in DOMAIN overlayFiles :
    LiveOverlayFile(f) /\ Len(f) > Len(k) /\ SubSeq(f, 1, Len(k)) = k

\* The size of the blob an overlay entry holds.
BlobSize(e) == IF e.kind = "memory" THEN Len(e.data) ELSE e.size

\* C24: stat(k) resolves in this order: live overlay file (file, blob size,
\* stored mtime and mode); explicit overlay directory (directory, size 0);
\* key in the deletion set (ENOENT); base entry (its kind, size, mtime and
\* mode); implicit directory from a nested live overlay file (directory,
\* size 0); otherwise ENOENT.
C24_StatResolutionOrder ==
  \A k \in Keys :
    IF LiveOverlayFile(k)
    THEN /\ stat(k).isFile /\ ~stat(k).isDirectory
         /\ stat(k).size = BlobSize(overlayFiles[k])
         /\ stat(k).mtime = overlayFiles[k].mtime
         /\ stat(k).mode = overlayFiles[k].mode
    ELSE IF k \in overlayDirs
    THEN stat(k).isDirectory /\ ~stat(k).isFile /\ stat(k).size = 0
    ELSE IF k \in deleted
    THEN stat(k).code = "ENOENT"
    ELSE IF Has(entries, k)
    THEN /\ stat(k).ok
         /\ stat(k).isDirectory = entries[k].isDirectory
         /\ stat(k).isFile = ~entries[k].isDirectory
         /\ stat(k).size = entries[k].size
         /\ stat(k).mtime = entries[k].mtime
         /\ stat(k).mode = entries[k].mode
    ELSE IF ImplicitOverlayDirectory(k)
    THEN stat(k).isDirectory /\ ~stat(k).isFile /\ stat(k).size = 0
    ELSE stat(k).code = "ENOENT"

\* A key is an explicit overlay directory and in the deletion set at once:
\* stat reports the directory.
C24_Witness ==
  \E k \in Keys : k \in overlayDirs /\ k \in deleted /\ stat(k).isDirectory

\* C25: readFile(k) resolves in this order: live overlay file gives its
\* bytes; explicit or implicit overlay directory gives EISDIR; key in the
\* deletion set gives ENOENT; base directory gives EISDIR; base file gives its
\* content; otherwise ENOENT.  EISDIR for an implicit overlay directory takes
\* precedence over ENOENT for a deleted key.  Stated for a handle whose base
\* session is open, so that a base file's content can be read.
C25_ReadFileResolutionOrder ==
  zipfile = "open" =>
  \A k \in Keys :
    IF LiveOverlayFile(k)
    THEN readFile(k) = BlobRead(Handle, overlayFiles[k])
    ELSE IF k \in overlayDirs \/ ImplicitOverlayDirectory(k)
    THEN readFile(k).code = "EISDIR"
    ELSE IF k \in deleted
    THEN readFile(k).code = "ENOENT"
    ELSE IF Has(entries, k) /\ entries[k].isDirectory
    THEN readFile(k).code = "EISDIR"
    ELSE IF Has(entries, k)
    THEN readFile(k) = Content(entries[k].data)
    ELSE readFile(k).code = "ENOENT"

\* C26: readdir(d) on a directory returns exactly the single-segment names of
\* the base children of d, of the live overlay files whose parent is d, and
\* of the explicit and implicit overlay directories whose parent is d; after
\* writeFile("a/b") the root listing contains "a".
C26_ReaddirListsOverlayDirectories ==
  \A d \in Keys \cup {Root} :
    readdir(d).ok =>
      readdir(d).names =
        (IF Has(dirs, d) THEN dirs[d] ELSE {})
        \cup { k[Len(k)] : k \in { f \in Keys : LiveOverlayFile(f) /\ Parent(f) = d } }
        \cup { k[Len(k)] : k \in { g \in Keys :
                 /\ g \in overlayDirs \/ ImplicitOverlayDirectory(g)
                 /\ Parent(g) = d } }

\* The keys of the files a container holds, as the scan indexed them.
BaseFileKeys == { k \in DOMAIN entries : ~entries[k].isDirectory }

\* C27: once the Base Index is built from a container, every proper prefix of
\* every entry's path is a listable directory, marker or not: readdir(prefix)
\* succeeds and lists the next segment, and the prefix appears in its own
\* parent's listing (the first segment in the root listing).
C27_BasePrefixesListable ==
  (last.op = "open" /\ zip.exists) =>
    \A k \in BaseFileKeys : \A i \in 1..(Len(k) - 1) :
      LET prefix == SubSeq(k, 1, i)
      IN  /\ readdir(prefix).ok
          /\ k[i + 1] \in readdir(prefix).names
          /\ readdir(Parent(prefix)).ok
          /\ prefix[i] \in readdir(Parent(prefix)).names

\* C28: mkdir(k) without recursive, on a key that is neither a known
\* directory nor a file, fails with ENOENT whenever k's immediate parent does
\* not resolve to an existing directory (it is absent, deleted, or a file);
\* when the parent is a directory it succeeds and adds only k to the explicit
\* directory set.
C28_MkdirParentCheck ==
  [][ \A k \in Keys :
        (/\ Len(k) > 1
         /\ k \notin overlayDirs /\ ~Has(entries, k) /\ ~Has(overlayFiles, k)
         /\ mkdir(k, FALSE))
          => IF stat(Parent(k)).isDirectory
             THEN last'.res = "OK" /\ overlayDirs' = overlayDirs \cup {k}
             ELSE last'.res = "ENOENT" /\ overlayDirs' = overlayDirs ]_vars

\* The codes a failing call ends with.
FailureCodes == {"ENOENT", "EISDIR", "ENOTDIR", "EEXIST", "EBLOCKED", "EIO_STAGING"}

\* C29: every call of writeFile, mkdir, unlink or commit that fails, whatever
\* the cause, leaves the overlay file map, the explicit directory set and the
\* deletion set exactly as they were before the call.
C29_FailedCallChangesNoOverlay ==
  [][ (/\ last' # last \/ nops' # nops
       /\ last'.op \in {"writeFile", "mkdir", "unlink", "commit"}
       /\ last'.res \in FailureCodes)
        => UNCHANGED << overlayFiles, overlayDirs, deleted >> ]_vars

\* s is an initial part of t.
IsPrefix(s, t) == Len(s) <= Len(t) /\ SubSeq(t, 1, Len(s)) = s

\* C23: the chunks createReadStream(k) delivers, concatenated, are the bytes
\* readFile(k) returns, delivered exactly once and followed by end-of-stream,
\* for memory blobs, disk blobs and base files, however many times the
\* consumer pulls: with no I/O fault, what has been delivered is always an
\* initial part of the content, the Readable does not fail, and once it has
\* ended all of the content has been delivered.
C23_StreamDeliversContentOnce ==
  (rstream.state # "none" /\ readFile(rstream.key).ok /\ ~rstream.fault)
    => /\ IsPrefix(rstream.delivered, readFile(rstream.key).data)
       /\ rstream.state # "errored"
       /\ rstream.state = "ended" => rstream.delivered = readFile(rstream.key).data

\* C30: the counter equals the number of base streams opened through
\* createReadStream that have not completed or errored: it goes up once per
\* stream, is never negative, and is zero once every stream has finished.
C30_CounterCountsOpenBaseStreams ==
  /\ activeReadStreams >= 0
  /\ activeReadStreams <= (IF rstream.state = "open" THEN 1 ELSE 0)

\* C31: in every reachable merged view no key is both a file and a
\* directory: there is no key for which stat reports a file while readdir
\* succeeds, nor one for which stat reports a directory while readFile
\* returns content.
C31_NoKeyBothFileAndDirectory ==
  \A k \in Keys :
    /\ ~(stat(k).ok /\ stat(k).isFile /\ readdir(k).ok)
    /\ ~(stat(k).ok /\ stat(k).isDirectory /\ readFile(k).ok)

\* C32: a deletion-set entry never hides an overlay entry: for any key that
\* is a live overlay file or an explicit overlay directory, stat, readFile and
\* readdir never fail with ENOENT, and a writeFile(k) that succeeded has
\* removed k from the deletion set.
C32_DeletionNeverHidesOverlay ==
  /\ \A k \in Keys :
       (LiveOverlayFile(k) \/ k \in overlayDirs)
         => /\ stat(k).code # "ENOENT"
            /\ readFile(k).code # "ENOENT"
            /\ readdir(k).code # "ENOENT"
  /\ (last.op = "writeFile" /\ last.res = "OK") => last.key \notin deleted

\* C33: commit() on a handle that has been closed never silently drops base
\* content: when such a commit resolves, the new container still holds every
\* base file that was neither deleted nor shadowed by an overlay file.
C33_CommitAfterCloseKeepsBase ==
  (CommitSucceeded /\ pre.zipfile = "null") =>
    \A k \in DOMAIN pre.entries :
      (~pre.entries[k].isDirectory /\ k \notin pre.deleted /\ ~Has(pre.overlayFiles, k))
        => Has(zip.files, k) /\ zip.files[k] = pre.entries[k].data

\* What an acknowledged call asked for is in the container or in the overlay.
Kept(m) ==
  IF m.op = "writeFile"
  THEN \/ Has(overlayFiles, m.key) /\ readFile(m.key) = Content(m.data)
       \/ Has(zip.files, m.key) /\ zip.files[m.key] = m.data
  ELSE IF m.op = "mkdir"
  THEN m.key \in overlayDirs \/ m.key \in zip.dirs
  ELSE m.key \in deleted \/ ~Has(zip.files, m.key)

\* C34: no acknowledged mutation is lost: a writeFile, mkdir or unlink that
\* completed successfully while a commit() was suspended is, once that commit
\* has finished, either contained in the committed container or still staged
\* in the overlay.  It is stated for the latest such call, when no other call
\* has been made since.
C34_NoAcknowledgedMutationLost ==
  (pc = "idle" /\ last.op = "commit" /\ last.res = "OK")
    => \A m \in acked : m.at = nops => Kept(m.call)

\* C35: a successful commit() does not change what is a directory: every key
\* that stat reported as a directory immediately before the commit is still
\* reported as a directory afterwards, in the same handle and on reopen.
C35_CommitKeepsDirectories ==
  CommitSucceeded =>
    \A k \in Keys :
      (pre.stats[k].ok /\ pre.stats[k].isDirectory)
        => /\ stat(k).ok /\ stat(k).isDirectory
           /\ statOf(OpenOn(zip), k).ok /\ statOf(OpenOn(zip), k).isDirectory

\* C36: every name returned by readdir(d) resolves: stat of d joined with
\* that name succeeds; a base file removed with unlink no longer appears in
\* the listing of its parent directory.
C36_ListedNamesResolve ==
  \A d \in Keys \cup {Root} :
    readdir(d).ok => \A n \in readdir(d).names : stat(Append(d, n)).ok

\* C37: stat and readFile agree on files: while the handle is open (its base
\* session is open and no commit is in progress), for every key readFile(k)
\* returns content if and only if stat(k) reports a file.
C37_StatAndReadFileAgree ==
  (zipfile = "open" /\ pc = "idle")
    => \A k \in Keys : readFile(k).ok <=> (stat(k).ok /\ stat(k).isFile)

\* C38: once unlink(k) has succeeded on a base file, k stays absent (stat and
\* readFile fail with ENOENT) until a later writeFile(k) or mkdir(k) creates
\* an overlay entry at k: a call that leaves no overlay file and no explicit
\* directory at k never brings the deleted base file back into the view.
C38_DeletedBaseFileStaysAbsent ==
  [][ \A k \in Keys :
        (/\ k \in deleted /\ Has(entries, k) /\ ~entries[k].isDirectory
         /\ stat(k).code = "ENOENT" /\ readFile(k).code = "ENOENT"
         /\ pc = "idle" /\ pc' = "idle"
         /\ ~Has(overlayFiles', k) /\ k \notin overlayDirs')
          => (stat(k)'.code = "ENOENT" /\ readFile(k)'.code = "ENOENT") ]_vars

\* A step that continues the commit() in progress: the completion of the I/O
\* it awaits, which the event loop always delivers.
CommitProgress ==
  \/ commitWritten
  \/ commitWriteError
  \/ commitSourceError
  \/ commitRenamed
  \/ commitRenameError
  \/ commitReopen
  \/ commitOpened
  \/ commitOpenError
  \/ commitScanError
  \/ commitScanEntry
  \/ commitEnd

FairSpec == Spec /\ WF_vars(CommitProgress)

\* C39: every commit() call eventually settles: it resolves after the rescan
\* or rejects with the error, including when a base-entry stream or a staging
\* file cannot be read during serialization; it never stays pending forever.
C39_CommitSettles == (pc # "idle") ~> (pc = "idle")

\* C40: no key is ever in both the overlay file map and the deletion set,
\* with either setting of preserveOverlayOnCommit: every overlay file is
\* live.
C40_OverlayFilesNeverDeleted ==
  \A k \in DOMAIN overlayFiles : k \notin deleted /\ LiveOverlayFile(k)

\* A base file was unlinked and then written again: it is an overlay file
\* over a base entry, and the deletion set no longer holds it.
C40_Witness ==
  /\ last.op = "writeFile" /\ last.res = "OK"
  /\ Has(overlayFiles, last.key) /\ Has(entries, last.key)
  /\ last.key \notin deleted
  /\ deleted # {}

====
